---- MODULE Spec2Model ----
(***************************************************************************)
(* Portfolio-Sorter: the keyword categorizer (src/src/categorizer.py), the *)
(* extension-dispatching text extractor (src/src/text_extractor.py), the   *)
(* file utilities (src/src/file_utils.py) and the per-file orchestration   *)
(* loop process_files (src/src/main_sorter.py).                            *)
(*                                                                         *)
(* Texts, file names and keyword patterns are sequences of one-character   *)
(* strings, so that lowercasing, stripping, extension splitting and        *)
(* substring search are computed, not assumed.                             *)
(***************************************************************************)
EXTENDS Integers, Sequences, FiniteSets, TLC

\* ------------------------------------------------------------------------
\* Bounds of the model
\* ------------------------------------------------------------------------

\* longest caller-supplied category list drawn for categorize_text
\* (the ten-element PREDEFINED_CATEGORIES list is drawn besides)
MaxCats == 2

\* most files present in the source and target trees when process_files starts
MaxFiles == 2

\* Python's None
None == "None"

\* ------------------------------------------------------------------------
\* categorizer.py
\* ------------------------------------------------------------------------

PREDEFINED_CATEGORIES == <<
    "Theses & Dissertations",
    "Coursework & Term Papers",
    "Certificates & Diplomas",
    "Tests & Quizzes",
    "Answer Keys & Solutions",
    "Presentations",
    "Formal Documents & Correspondence",
    "Books & Textbooks",
    "Learning Materials & Study Guides",
    "Reports" >>

\* LLMCategorizer._category_keywords: category -> ordered list of patterns.
\* Every pattern is a literal (no regular-expression metacharacter occurs).
category_keywords ==
    "Theses & Dissertations" :> <<
        <<"t", "h", "e", "s", "i", "s">>,
        <<"d", "i", "s", "s", "e", "r", "t", "a", "t", "i", "o", "n">> >>
    @@ "Coursework & Term Papers" :> <<
        <<"c", "o", "u", "r", "s", "e", "w", "o", "r", "k">>,
        <<"t", "e", "r", "m", " ", "p", "a", "p", "e", "r">>,
        <<"a", "s", "s", "i", "g", "n", "m", "e", "n", "t">>,
        <<"e", "s", "s", "a", "y">> >>
    @@ "Certificates & Diplomas" :> <<
        <<"c", "e", "r", "t", "i", "f", "i", "c", "a", "t", "e">>,
        <<"d", "i", "p", "l", "o", "m", "a">>,
        <<"c", "e", "r", "t", "i", "f", "i", "c", "a", "t", "i", "o", "n">>,
        <<"d", "e", "g", "r", "e", "e">> >>
    @@ "Tests & Quizzes" :> <<
        <<"t", "e", "s", "t">>,
        <<"q", "u", "i", "z">>,
        <<"e", "x", "a", "m">>,
        <<"m", "i", "d", "t", "e", "r", "m">>,
        <<"f", "i", "n", "a", "l", " ", "e", "x", "a", "m">> >>
    @@ "Answer Keys & Solutions" :> <<
        <<"a", "n", "s", "w", "e", "r", " ", "k", "e", "y">>,
        <<"s", "o", "l", "u", "t", "i", "o", "n">>,
        <<"s", "o", "l", "u", "t", "i", "o", "n", "s", " ", "m", "a", "n", "u", "a", "l">> >>
    @@ "Presentations" :> <<
        <<"p", "r", "e", "s", "e", "n", "t", "a", "t", "i", "o", "n">>,
        <<"s", "l", "i", "d", "e", "s">>,
        <<"p", "o", "w", "e", "r", "p", "o", "i", "n", "t">>,
        <<"k", "e", "y", "n", "o", "t", "e">> >>
    @@ "Formal Documents & Correspondence" :> <<
        <<"l", "e", "t", "t", "e", "r">>,
        <<"m", "e", "m", "o">>,
        <<"m", "e", "m", "o", "r", "a", "n", "d", "u", "m">>,
        <<"c", "o", "n", "t", "r", "a", "c", "t">>,
        <<"a", "g", "r", "e", "e", "m", "e", "n", "t">>,
        <<"o", "f", "f", "i", "c", "i", "a", "l", " ", "d", "o", "c", "u", "m", "e", "n", "t">> >>
    @@ "Books & Textbooks" :> <<
        <<"b", "o", "o", "k">>,
        <<"t", "e", "x", "t", "b", "o", "o", "k">>,
        <<"m", "a", "n", "u", "a", "l">>,
        <<"e", "-", "b", "o", "o", "k">> >>
    @@ "Learning Materials & Study Guides" :> <<
        <<"s", "t", "u", "d", "y", " ", "g", "u", "i", "d", "e">>,
        <<"n", "o", "t", "e", "s">>,
        <<"h", "a", "n", "d", "o", "u", "t">>,
        <<"w", "o", "r", "k", "s", "h", "e", "e", "t">>,
        <<"l", "e", "a", "r", "n", "i", "n", "g", " ", "m", "a", "t", "e", "r", "i", "a", "l">> >>
    @@ "Reports" :> <<
        <<"r", "e", "p", "o", "r", "t">>,
        <<"s", "u", "m", "m", "a", "r", "y">>,
        <<"a", "n", "a", "l", "y", "s", "i", "s">>,
        <<"f", "i", "n", "d", "i", "n", "g", "s">> >>

\* the (text, expected) table of the categorizer's self-test
sample_texts == <<
    << <<"T", "h", "i", "s", " ", "i", "s", " ", "m", "y", " ", "m", "a", "s", "t", "e", "r",
       "'", "s", " ", "t", "h", "e", "s", "i", "s", " ", "o", "n", " ", "A", "I", ".">>,
       "Theses & Dissertations" >>,
    << <<"P", "l", "e", "a", "s", "e", " ", "f", "i", "n", "d", " ", "a", "t", "t", "a", "c",
       "h", "e", "d", " ", "t", "h", "e", " ", "c", "e", "r", "t", "i", "f", "i", "c", "a",
       "t", "e", " ", "o", "f", " ", "c", "o", "m", "p", "l", "e", "t", "i", "o", "n", ".">>,
       "Certificates & Diplomas" >>,
    << <<"H", "e", "r", "e", " ", "a", "r", "e", " ", "t", "h", "e", " ", "s", "l", "i", "d",
       "e", "s", " ", "f", "o", "r", " ", "m", "y", " ", "p", "r", "e", "s", "e", "n", "t",
       "a", "t", "i", "o", "n", ".">>,
       "Presentations" >>,
    << <<"W", "e", "e", "k", "l", "y", " ", "p", "r", "o", "j", "e", "c", "t", " ", "r", "e",
       "p", "o", "r", "t", ".">>,
       "Reports" >>,
    << <<"S", "o", "l", "u", "t", "i", "o", "n", "s", " ", "f", "o", "r", " ", "c", "h", "a",
       "p", "t", "e", "r", " ", "5", " ", "e", "x", "e", "r", "c", "i", "s", "e", "s", ".">>,
       "Answer Keys & Solutions" >>,
    << <<"A", " ", "s", "h", "o", "r", "t", " ", "q", "u", "i", "z", " ", "a", "b", "o", "u",
       "t", " ", "h", "i", "s", "t", "o", "r", "i", "c", "a", "l", " ", "d", "a", "t", "e",
       "s", ".">>,
       "Tests & Quizzes" >>,
    << <<"T", "e", "r", "m", " ", "p", "a", "p", "e", "r", " ", "o", "n", " ", "c", "l", "i",
       "m", "a", "t", "e", " ", "c", "h", "a", "n", "g", "e", ".">>,
       "Coursework & Term Papers" >>,
    << <<"T", "e", "x", "t", "b", "o", "o", "k", " ", "f", "o", "r", " ", "I", "n", "t", "r",
       "o", "d", "u", "c", "t", "i", "o", "n", " ", "t", "o", " ", "P", "h", "y", "s", "i",
       "c", "s", ".">>,
       "Books & Textbooks" >>,
    << <<"M", "y", " ", "s", "t", "u", "d", "y", " ", "g", "u", "i", "d", "e", " ", "f", "o",
       "r", " ", "t", "h", "e", " ", "u", "p", "c", "o", "m", "i", "n", "g", " ", "e", "x",
       "a", "m", ".">>,
       "Learning Materials & Study Guides" >>,
    << <<"A", "n", " ", "o", "f", "f", "i", "c", "i", "a", "l", " ", "l", "e", "t", "t", "e",
       "r", " ", "f", "r", "o", "m", " ", "t", "h", "e", " ", "u", "n", "i", "v", "e", "r",
       "s", "i", "t", "y", ".">>,
       "Formal Documents & Correspondence" >>,
    << <<"T", "h", "i", "s", " ", "d", "o", "c", "u", "m", "e", "n", "t", " ", "i", "s", " ",
       "c", "o", "m", "p", "l", "e", "t", "e", "l", "y", " ", "u", "n", "r", "e", "l", "a",
       "t", "e", "d", ".">>,
       None >>,
    << <<>>,
       None >> >>

\* "This is a thesis." and the two category lists of the self-test's last two cases
text_custom ==
    <<"T", "h", "i", "s", " ", "i", "s", " ", "a", " ", "t", "h", "e", "s", "i", "s", ".">>

custom_categories == << "Custom Category A", "Theses & Dissertations" >>

random_categories == << "Random Category" >>

\* the paragraphs of the two real .docx files of main_sorter.py's self-test
text_real_report ==
    <<"T", "h", "i", "s", " ", "i", "s", " ", "a", " ", "t", "e", "s", "t", " ", "r", "e", "p",
       "o", "r", "t", " ", "d", "o", "c", "u", "m", "e", "n", "t", " ", "f", "o", "r", " ",
       "c", "a", "t", "e", "g", "o", "r", "i", "z", "a", "t", "i", "o", "n", ".">>

text_dissertation ==
    <<"T", "h", "i", "s", " ", "i", "s", " ", "m", "y", " ", "d", "i", "s", "s", "e", "r", "t",
       "a", "t", "i", "o", "n", " ", "a", "b", "o", "u", "t", " ", "a", "d", "v", "a", "n",
       "c", "e", "d", " ", "t", "o", "p", "i", "c", "s", ".">>

\* further inputs: keywords in upper case, and whitespace-only texts
text_upper ==
    <<"F", "I", "N", "A", "L", " ", "R", "E", "P", "O", "R", "T">>

text_spaces ==
    <<" ", " ", " ">>

text_newlines ==
    <<" ", "\n", "\t">>

\* str.lower() on the ASCII letters
LowerOf ==
    "A" :> "a" @@ "B" :> "b" @@ "C" :> "c" @@ "D" :> "d" @@ "E" :> "e" @@ "F" :> "f"
    @@ "G" :> "g" @@ "H" :> "h" @@ "I" :> "i" @@ "J" :> "j" @@ "K" :> "k" @@ "L" :> "l"
    @@ "M" :> "m" @@ "N" :> "n" @@ "O" :> "o" @@ "P" :> "p" @@ "Q" :> "q" @@ "R" :> "r"
    @@ "S" :> "s" @@ "T" :> "t" @@ "U" :> "u" @@ "V" :> "v" @@ "W" :> "w" @@ "X" :> "x"
    @@ "Y" :> "y" @@ "Z" :> "z"

lower_char(c) == IF c \in DOMAIN LowerOf THEN LowerOf[c] ELSE c

RECURSIVE lower(_)
lower(s) ==
    IF s = <<>> THEN <<>> ELSE <<lower_char(Head(s))>> \o lower(Tail(s))

\* str.strip(): leading and trailing whitespace removed
Whitespace == {" ", "\t", "\n", "\r"}

RECURSIVE lstrip(_)
lstrip(s) ==
    IF s # <<>> /\ Head(s) \in Whitespace THEN lstrip(Tail(s)) ELSE s

RECURSIVE rstrip(_)
rstrip(s) ==
    IF s # <<>> /\ s[Len(s)] \in Whitespace THEN rstrip(SubSeq(s, 1, Len(s) - 1)) ELSE s

strip(s) == rstrip(lstrip(s))

\* re.search(pattern, string) for a literal pattern: it occurs somewhere
re_search(pattern, string) ==
    \E i \in 1..(Len(string) - Len(pattern) + 1) :
        SubSeq(string, i, i + Len(pattern) - 1) = pattern

\* the inner loop of categorize_text: some pattern of the list is found
any_keyword_found(keywords, lower_text) ==
    \E k \in 1..Len(keywords) : re_search(keywords[k], lower_text)

\* mutant: the categories are tried in the keyword table's order, not the caller's
RECURSIVE scan_table_order(_, _, _)
scan_table_order(table, categories, lower_text) ==
    IF table = <<>> THEN None
    ELSE IF (\E i \in 1..Len(categories) : categories[i] = Head(table))
            /\ any_keyword_found(category_keywords[Head(table)], lower_text)
         THEN Head(table)
         ELSE scan_table_order(Tail(table), categories, lower_text)

scan_categories_TableOrder(categories, lower_text) ==
    scan_table_order(PREDEFINED_CATEGORIES, categories, lower_text)

\* mutant: a name without a keyword rule ends the scan
RECURSIVE scan_categories_StopAtUnknown(_, _)
scan_categories_StopAtUnknown(categories, lower_text) ==
    IF categories = <<>> THEN None
    ELSE IF Head(categories) \notin DOMAIN category_keywords THEN None
    ELSE IF any_keyword_found(category_keywords[Head(categories)], lower_text)
         THEN Head(categories)
         ELSE scan_categories_StopAtUnknown(Tail(categories), lower_text)

\* the outer loop of categorize_text, over the caller's list in its order
RECURSIVE scan_categories(_, _)
scan_categories(categories, lower_text) ==
    IF categories = <<>> THEN None
    ELSE IF Head(categories) \in DOMAIN category_keywords
            /\ any_keyword_found(category_keywords[Head(categories)], lower_text)
         THEN Head(categories)
         ELSE scan_categories(Tail(categories), lower_text)

\* mutant: no empty-text guard, and a miss falls back to the first allowed name
categorize_text_DefaultFirst(text, categories) ==
    LET found == scan_categories(categories, lower(text))
    IN  IF found = None /\ categories # <<>> THEN Head(categories) ELSE found

categorize_text(text, categories) ==
    IF text = <<>> \/ strip(text) = <<>>
    THEN None
    ELSE scan_categories(categories, lower(text))

\* ------------------------------------------------------------------------
\* text_extractor.py
\* ------------------------------------------------------------------------

DOC_EXTENSIONS == << <<".", "d", "o", "c">>, <<".", "d", "o", "c", "x">> >>

PDF_EXTENSIONS == << <<".", "p", "d", "f">> >>

EXCEL_EXTENSIONS == << <<".", "x", "l", "s">>, <<".", "x", "l", "s", "x">> >>

POWERPOINT_EXTENSIONS == << <<".", "p", "p", "t">>, <<".", "p", "p", "t", "x">> >>

ALL_SUPPORTED_EXTENSIONS ==
    DOC_EXTENSIONS \o PDF_EXTENSIONS \o EXCEL_EXTENSIONS \o POWERPOINT_EXTENSIONS

\* Python's `x in s` for a tuple or list s
InSeq(x, s) == \E i \in 1..Len(s) : s[i] = x

\* os.path.splitext(p)[1] for a path whose last component is p: the text from the
\* last dot on, unless only dots precede that dot (then "")
splitext_ext(p) ==
    LET dots == {i \in 1..Len(p) : p[i] = "."}
    IN  IF dots = {} THEN <<>>
        ELSE LET d == CHOOSE i \in dots : \A k \in dots : k <= i
             IN  IF \A k \in 1..(d - 1) : p[k] = "." THEN <<>> ELSE SubSeq(p, d, Len(p))

\* a file-system path: the directory and the file name in it
PathOf(f) == [dir |-> f.dir, name |-> f.name]

isfile(fsys, path) == \E f \in fsys : PathOf(f) = path

FileAt(fsys, path) == CHOOSE f \in fsys : PathOf(f) = path

\* results of a call: a returned text, a returned None, or a raised exception
ReturnText(t) == [kind |-> "text", exc |-> None, text |-> t]

ReturnNone == [kind |-> "none", exc |-> None, text |-> <<>>]

Raise(e) == [kind |-> "raise", exc |-> e, text |-> <<>>]

\* Document / PdfReader / load_workbook / Presentation: the format library reads
\* the text of the file or raises an exception of its own
format_library_read(f) ==
    IF f.body.parseable THEN ReturnText(f.body.text) ELSE Raise("ParserError")

\* mutant: the exception of the format library is let through
reraise_Passthrough(r) == r

\* 'except TextExtractionError: raise' and 'except Exception as e: raise
\* TextExtractionError(...)': whatever is raised leaves as TextExtractionError
reraise_as_TextExtractionError(r) ==
    IF r.kind = "raise" /\ r.exc # "TextExtractionError"
    THEN Raise("TextExtractionError")
    ELSE r

\* _extract_text_from_docx/_pdf/_excel/_pptx: the format library either reads the
\* file's text or raises, and every exception is re-raised as TextExtractionError
extract_text_from_format(f) ==
    reraise_as_TextExtractionError(format_library_read(f))

\* mutant: '.doc' is handed to the .docx parser like '.docx'
extract_text_DocParsed(fsys, file_path) ==
    IF ~isfile(fsys, file_path) THEN Raise("FileNotFoundError")
    ELSE LET file_extension == lower(splitext_ext(file_path.name))
         IN  IF InSeq(file_extension, ALL_SUPPORTED_EXTENSIONS)
             THEN extract_text_from_format(FileAt(fsys, file_path))
             ELSE ReturnNone

extract_text(fsys, file_path) ==
    IF ~isfile(fsys, file_path) THEN Raise("FileNotFoundError")
    ELSE LET file_extension == lower(splitext_ext(file_path.name))
         IN  reraise_as_TextExtractionError(
               IF InSeq(file_extension, DOC_EXTENSIONS)
               THEN IF file_extension = <<".", "d", "o", "c">>
                    THEN ReturnNone
                    ELSE extract_text_from_format(FileAt(fsys, file_path))
               ELSE IF InSeq(file_extension, PDF_EXTENSIONS)
                       \/ InSeq(file_extension, EXCEL_EXTENSIONS)
                       \/ InSeq(file_extension, POWERPOINT_EXTENSIONS)
               THEN extract_text_from_format(FileAt(fsys, file_path))
               ELSE ReturnNone)

\* ------------------------------------------------------------------------
\* file_utils.py
\* ------------------------------------------------------------------------

\* directories: the source root, one subfolder of it, and the category
\* subdirectories of the target root
SourceRoot == <<"source">>

SubFolder == <<"source", "subfolder">>

TargetSubdir(subdir_name) == <<"target", subdir_name>>

\* directory d lies in the tree os.walk(source_dir) visits; the target root may
\* itself lie inside the source root
UnderSource(d, nested) == d[1] = "source" \/ (nested /\ d[1] = "target")

RECURSIVE lower_each(_)
lower_each(exts) ==
    IF exts = <<>> THEN <<>> ELSE <<lower(Head(exts))>> \o lower_each(Tail(exts))

\* mutant: the file's extension is compared without lowercasing it
passes_filter_CaseSensitive(file, excluded_extensions_lower) ==
    ~InSeq(splitext_ext(file), excluded_extensions_lower)

\* the file's extension, lowercased, is not in the lowercased exclusion list
passes_filter(file, excluded_extensions_lower) ==
    ~InSeq(lower(splitext_ext(file)), excluded_extensions_lower)

\* os.walk is top-down: the files of the root come first, the files of one
\* directory are listed together; the order is otherwise the file system's
WalkOrdered(listing) ==
    /\ \A i, j \in 1..Len(listing) :
          (i < j /\ listing[j].dir = SourceRoot) => listing[i].dir = SourceRoot
    /\ \A i, j, k \in 1..Len(listing) :
          (i < j /\ j < k /\ listing[i].dir = listing[k].dir) => listing[j].dir = listing[i].dir

\* get_source_files: the lists it may return, one per directory-listing order
get_source_files(fsys, nested, excluded_extensions) ==
    LET excluded_extensions_lower == lower_each(excluded_extensions)
        found == {PathOf(f) : f \in {g \in fsys : /\ UnderSource(g.dir, nested)
                                                  /\ passes_filter(g.name, excluded_extensions_lower)}}
        n == Cardinality(found)
    IN  {listing \in [1..n -> found] :
            /\ \A i, j \in 1..n : i # j => listing[i] # listing[j]
            /\ WalkOrdered(listing)}

\* create_target_subdir: mkdir(parents=True, exist_ok=True), which may fail
\* Path.mkdir(parents=True, exist_ok=...) of a category folder: an existing
\* folder is an error (FileExistsError, an OSError) unless exist_ok is set; the
\* operating system may refuse the creation (fails)
mkdir(dirs, subdir_name, exist_ok, fails) ==
    IF fails \/ (subdir_name \in dirs /\ ~exist_ok)
    THEN [exc |-> "OSError", dirs |-> dirs]
    ELSE [exc |-> None, dirs |-> dirs \cup {subdir_name}]

\* mutant: the folder is made without exist_ok
create_target_subdir_NoExistOk(dirs, subdir_name, fails) ==
    LET made == mkdir(dirs, subdir_name, FALSE, fails)
    IN  [exc |-> made.exc, dirs |-> made.dirs, path |-> TargetSubdir(subdir_name)]

\* create_target_subdir: the OSError of mkdir is raised again, otherwise the
\* path of the folder is returned
create_target_subdir(dirs, subdir_name, fails) ==
    LET made == mkdir(dirs, subdir_name, TRUE, fails)
    IN  [exc |-> made.exc, dirs |-> made.dirs, path |-> TargetSubdir(subdir_name)]

\* shutil.move(src, dst) of a regular file onto a file path: the file leaves src
\* and is at dst, replacing whatever file was there
shutil_move(fsys, src, dst) ==
    {g \in fsys : PathOf(g) # src /\ PathOf(g) # dst}
        \cup {[FileAt(fsys, src) EXCEPT !.dir = dst.dir, !.name = dst.name]}

\* os.path.join(target_dir_path, os.path.basename(source_file_path))
move_destination(source_file_path, target_dir_path) ==
    [dir |-> target_dir_path, name |-> source_file_path.name]

\* move_file_to_directory
move_file_to_directory(fsys, dirs, source_file_path, target_dir_path, fails) ==
    IF ~isfile(fsys, source_file_path)
    THEN [exc |-> "FileNotFoundError", fs |-> fsys, dirs |-> dirs]
    ELSE LET dirs2 == dirs \cup {target_dir_path[2]}
             destination_path == move_destination(source_file_path, target_dir_path)
         IN  IF fails
             THEN [exc |-> "OSError", fs |-> fsys, dirs |-> dirs2]
             ELSE [exc |-> None,
                   fs |-> shutil_move(fsys, source_file_path, destination_path),
                   dirs |-> dirs2]

\* ------------------------------------------------------------------------
\* main_sorter.py
\* ------------------------------------------------------------------------

EXCLUDED_FILE_EXTENSIONS == <<
    <<".", "j", "p", "g">>, <<".", "j", "p", "e", "g">>, <<".", "p", "n", "g">>,
    <<".", "g", "i", "f">>, <<".", "b", "m", "p">>, <<".", "t", "i", "f", "f">>,
    <<".", "s", "v", "g">>,
    <<".", "z", "i", "p">>, <<".", "r", "a", "r">>, <<".", "7", "z">>,
    <<".", "t", "a", "r">>, <<".", "g", "z">>,
    <<".", "m", "p", "3">>, <<".", "w", "a", "v">>, <<".", "a", "a", "c">>,
    <<".", "f", "l", "a", "c">>,
    <<".", "m", "p", "4">>, <<".", "a", "v", "i">>, <<".", "m", "o", "v">>,
    <<".", "m", "k", "v">>,
    <<".", "e", "x", "e">>, <<".", "d", "l", "l">>, <<".", "s", "o">>,
    <<".", "d", "m", "g">>, <<".", "a", "p", "p">>,
    <<".", "i", "s", "o">> >>

\* Python's exception hierarchy, as far as the except clauses tell classes apart
IsInstance(exc, class) ==
    \/ exc = class
    \/ class = "Exception"
          /\ exc \in {"TextExtractionError", "FileNotFoundError", "OSError", "ParserError"}
    \/ class = "OSError" /\ exc = "FileNotFoundError"

\* the first except clause, in order, that catches exc; None when none does
RECURSIVE first_handler(_, _)
first_handler(exc, clauses) ==
    IF clauses = <<>> THEN None
    ELSE IF IsInstance(exc, Head(clauses)) THEN Head(clauses)
    ELSE first_handler(exc, Tail(clauses))

\* mutant: only TextExtractionError is caught around the extraction
extraction_except_clauses_Narrow == << "TextExtractionError" >>

\* the except clauses around the extraction, and around the move
extraction_except_clauses == << "TextExtractionError", "FileNotFoundError", "Exception" >>

move_except_clauses == << "FileNotFoundError", "OSError", "Exception" >>

\* ------------------------------------------------------------------------
\* State
\* ------------------------------------------------------------------------

VARIABLES
    text,              \* categorize_text: the text argument
    categories,        \* categorize_text: the categories argument
    predicted,         \* categorize_text: "pending" before the call, then its return value
    fs,                \* the regular files of the source and target trees
    source_is_dir,     \* os.path.isdir(source_dir)
    target_is_dir,     \* os.path.isdir(target_dir)
    target_in_source,  \* the target root lies inside the source root
    subdirs,           \* the category subdirectories that exist under the target root
    pc,                \* where process_files is
    files_to_process,  \* process_files: the list get_source_files returned
    idx,               \* process_files: position of the for loop in files_to_process
    text_content,      \* process_files: the text extracted from the current file
    trace,             \* the calls made for the files, in order, with their results
    log,               \* the records handed to the logger, in order
    same_dirs,         \* app.py: abspath(source_dir) = abspath(target_dir)
    console,           \* app.py: what was printed, in order, each with its stream
    exit_code          \* app.py: <<>> while the process runs, then <<code>>

catVars == <<text, categories, predicted>>

runVars ==
    <<fs, source_is_dir, target_is_dir, target_in_source, subdirs, pc,
      files_to_process, idx, text_content, trace, log>>

appVars == <<same_dirs, console, exit_code>>

vars == <<catVars, runVars, appVars>>

\* ------------------------------------------------------------------------
\* The files a run may start from
\* ------------------------------------------------------------------------

name_real_report   == <<"r", "e", "p", "o", "r", "t", ".", "d", "o", "c", "x">>

name_thesis        == <<"T", "H", "E", "S", "I", "S", ".", "P", "D", "F">>

name_empty         == <<"e", "m", "p", "t", "y", ".", "d", "o", "c", "x">>

name_unrelated     == <<"m", "i", "s", "c", ".", "X", "l", "s", "x">>

name_legacy        == <<"o", "l", "d", ".", "D", "o", "c">>

name_archive       == <<"a", "r", "c", "h", "i", "v", "e", ".", "Z", "I", "P">>

name_notes         == <<"n", "o", "t", "e", "s", ".", "t", "x", "t">>

text_unrelated == sample_texts[11][1]

Parseable(t) == [parseable |-> TRUE, text |-> t]

Unparseable == [parseable |-> FALSE, text |-> <<>>]

\* name and content of the documents drawn: a report with keywords of two
\* categories, a corrupt file of the same name, a dissertation, a document with
\* whitespace only, a document without keywords, a legacy .doc, an archive, a
\* plain-text file
Documents ==
    { [name |-> name_real_report, body |-> Parseable(text_real_report)],
      [name |-> name_real_report, body |-> Unparseable],
      [name |-> name_thesis,      body |-> Parseable(text_dissertation)],
      [name |-> name_empty,       body |-> Parseable(text_newlines)],
      [name |-> name_unrelated,   body |-> Parseable(text_unrelated)],
      [name |-> name_legacy,      body |-> Unparseable],
      [name |-> name_archive,     body |-> Unparseable],
      [name |-> name_notes,       body |-> Unparseable] }

\* where a file may lie at the start: in the source root, in its subfolder, or
\* already in a category folder of the target
StartDirs == {SourceRoot, SubFolder, TargetSubdir("Tests & Quizzes")}

\* a file: where it is, where it was when the run started, its name, its content
PlacedFiles ==
    {[dir |-> d, orig |-> d, name |-> doc.name, body |-> doc.body] :
        d \in StartDirs, doc \in Documents}

RECURSIVE FileSetsUpTo(_)
FileSetsUpTo(n) ==
    IF n = 0 THEN {{}}
    ELSE LET smaller == FileSetsUpTo(n - 1)
         IN  smaller \cup {s \cup {f} : s \in smaller, f \in PlacedFiles}

FileSystems ==
    {s \in FileSetsUpTo(MaxFiles) : \A f, g \in s : PathOf(f) = PathOf(g) => f = g}

NoPath == [dir |-> <<"-">>, name |-> <<>>]

LogRecord(level, msg, path) == [level |-> level, msg |-> msg, path |-> path]

Call(op, path, result) == [op |-> op, path |-> path, result |-> result]

RunIdle ==
    /\ fs = {}
    /\ source_is_dir = FALSE
    /\ target_is_dir = FALSE
    /\ target_in_source = FALSE
    /\ subdirs = {}
    /\ pc = "idle"
    /\ files_to_process = <<>>
    /\ idx = 0
    /\ text_content = <<>>
    /\ trace = <<>>
    /\ log = <<>>

\* app.py is not involved: process_files is called on its own, as the
\* self-test of main_sorter.py does
AppIdle ==
    /\ same_dirs = FALSE
    /\ console = <<>>
    /\ exit_code = <<>>

CatIdle ==
    /\ text = <<>>
    /\ categories = <<>>
    /\ predicted = "idle"

\* ------------------------------------------------------------------------
\* process_files
\* ------------------------------------------------------------------------

\* the state process_files is called in: a missing source root holds no file, a
\* missing target root holds no file, and the category folders that exist are
\* those that hold a file
StartOfRun ==
    /\ CatIdle
    /\ fs \in FileSystems
    /\ source_is_dir \in BOOLEAN
    /\ target_is_dir \in BOOLEAN
    /\ target_in_source \in BOOLEAN
    /\ source_is_dir \/ \A f \in fs : f.dir[1] # "source"
    /\ target_is_dir \/ \A f \in fs : f.dir[1] # "target"
    /\ target_in_source => (source_is_dir \/ ~target_is_dir)
    /\ subdirs = {f.dir[2] : f \in {g \in fs : g.dir[1] = "target"}}
    /\ files_to_process = <<>>
    /\ idx = 0
    /\ text_content = <<>>
    /\ trace = <<>>
    /\ log = <<>>

\* process_files is called on its own
Init ==
    /\ StartOfRun
    /\ AppIdle
    /\ pc = "start"

\* mutant: the batch goes on although the target root could not be created
directory_checks_NoReturn(src_is_dir, tgt_is_dir, created) ==
    IF ~src_is_dir
    THEN [pc |-> "done", target_is_dir |-> tgt_is_dir,
          records |-> << LogRecord("INFO", "starting", NoPath),
                         LogRecord("ERROR", "source_missing", NoPath) >>]
    ELSE [pc |-> "scan", target_is_dir |-> tgt_is_dir \/ created,
          records |-> << LogRecord("INFO", "starting", NoPath) >>]

\* lines 33-47: the two directory checks; os.makedirs of a missing target root
\* succeeds (created) or raises OSError
directory_checks(src_is_dir, tgt_is_dir, created) ==
    IF ~src_is_dir
    THEN [pc |-> "done", target_is_dir |-> tgt_is_dir,
          records |-> << LogRecord("INFO", "starting", NoPath),
                         LogRecord("ERROR", "source_missing", NoPath) >>]
    ELSE IF ~tgt_is_dir
    THEN IF created
         THEN [pc |-> "scan", target_is_dir |-> TRUE,
               records |-> << LogRecord("INFO", "starting", NoPath),
                              LogRecord("WARNING", "target_missing", NoPath),
                              LogRecord("INFO", "target_created", NoPath) >>]
         ELSE [pc |-> "done", target_is_dir |-> FALSE,
               records |-> << LogRecord("INFO", "starting", NoPath),
                              LogRecord("WARNING", "target_missing", NoPath),
                              LogRecord("ERROR", "target_create_failed", NoPath) >>]
    ELSE [pc |-> "scan", target_is_dir |-> TRUE,
          records |-> << LogRecord("INFO", "starting", NoPath) >>]

CheckDirectories ==
    /\ pc = "start"
    /\ \E created \in BOOLEAN :
          \E checked \in {directory_checks(source_is_dir, target_is_dir, created)} :
             /\ pc' = checked.pc
             /\ target_is_dir' = checked.target_is_dir
             /\ log' = log \o checked.records
    /\ UNCHANGED <<catVars, appVars, fs, source_is_dir, target_in_source, subdirs,
                   files_to_process, idx, text_content, trace>>

\* lines 49-57: the scan of the source tree
ScanSource ==
    /\ pc = "scan"
    /\ IF ~source_is_dir
       THEN /\ log' = Append(log, LogRecord("ERROR", "source_missing_scan", NoPath))
            /\ pc' = "done"
            /\ UNCHANGED <<files_to_process, idx>>
       ELSE \E listing \in get_source_files(fs, target_in_source, EXCLUDED_FILE_EXTENSIONS) :
               /\ files_to_process' = listing
               /\ idx' = 1
               /\ log' = Append(log, LogRecord("INFO", "found_files", NoPath))
               /\ pc' = "loop"
    /\ UNCHANGED <<catVars, appVars, fs, source_is_dir, target_is_dir, target_in_source, subdirs,
                   text_content, trace>>

\* lines 59-84: the head of one iteration, up to the extracted text
ExtractStep ==
    /\ pc = "loop"
    /\ idx <= Len(files_to_process)
    /\ LET file_path == files_to_process[idx]
           file_name == file_path.name
           file_ext  == lower(splitext_ext(file_name))
           started   == Append(log, LogRecord("INFO", "processing", file_path))
       IN  IF ~InSeq(file_ext, ALL_SUPPORTED_EXTENSIONS)
           THEN /\ log' = Append(started, LogRecord("INFO", "unsupported_type", file_path))
                /\ idx' = idx + 1
                /\ UNCHANGED <<pc, text_content, trace>>
           ELSE \E r \in {extract_text(fs, file_path)} :
                    /\ trace' = Append(trace, Call("extract_text", file_path,
                                                   IF r.kind = "raise" THEN r.exc ELSE r.kind))
                    /\ IF r.kind = "raise"
                       THEN LET clause == first_handler(r.exc, extraction_except_clauses)
                            IN  IF clause = None
                                THEN /\ pc' = "raised"
                                     /\ log' = started
                                     /\ UNCHANGED <<idx, text_content>>
                                ELSE /\ log' = Append(started,
                                            LogRecord("ERROR",
                                                CASE clause = "TextExtractionError" -> "extraction_failed"
                                                  [] clause = "FileNotFoundError" -> "not_found_extraction"
                                                  [] OTHER -> "unexpected_extraction",
                                                file_path))
                                     /\ idx' = idx + 1
                                     /\ UNCHANGED <<pc, text_content>>
                       ELSE IF r.kind = "none" \/ strip(r.text) = <<>>
                       THEN /\ log' = Append(started, LogRecord("WARNING", "no_text", file_path))
                            /\ idx' = idx + 1
                            /\ UNCHANGED <<pc, text_content>>
                       ELSE /\ text_content' = r.text
                            /\ pc' = "relocate"
                            /\ log' = started
                            /\ UNCHANGED idx
    /\ UNCHANGED <<catVars, appVars, fs, source_is_dir, target_is_dir, target_in_source, subdirs,
                   files_to_process>>

\* lines 86-102: categorization, and the move of a categorized file
RelocateStep ==
    /\ pc = "relocate"
    /\ \E category \in {categorize_text(text_content, PREDEFINED_CATEGORIES)} :
       LET file_path == files_to_process[idx]
           called    == Append(trace, Call("categorize_text", file_path, category))
       IN  IF category # None
           THEN \E os_outcome \in {"ok", "mkdir_fails", "move_fails"} :
                  LET made == create_target_subdir(subdirs, category, os_outcome = "mkdir_fails")
                      called2 == Append(called, Call("create_target_subdir", file_path,
                                                     IF made.exc = None THEN category ELSE made.exc))
                  IN  IF made.exc # None
                      THEN LET clause == first_handler(made.exc, move_except_clauses)
                           IN  /\ trace' = called2
                               /\ UNCHANGED <<fs, subdirs>>
                               /\ IF clause = None
                                  THEN /\ pc' = "raised"
                                       /\ UNCHANGED <<log, idx>>
                                  ELSE /\ log' = Append(log, LogRecord("ERROR", "os_error", file_path))
                                       /\ idx' = idx + 1
                                       /\ pc' = "loop"
                      ELSE LET moved == move_file_to_directory(fs, made.dirs, file_path,
                                                                made.path, os_outcome = "move_fails")
                               clause == first_handler(moved.exc, move_except_clauses)
                           IN  /\ trace' = Append(called2, Call("move_file_to_directory", file_path,
                                                   IF moved.exc = None THEN category ELSE moved.exc))
                               /\ fs' = moved.fs
                               /\ subdirs' = moved.dirs
                               /\ IF moved.exc = None
                                  THEN /\ log' = Append(log, LogRecord("INFO", "moved", file_path))
                                       /\ idx' = idx + 1
                                       /\ pc' = "loop"
                                  ELSE IF clause = None
                                  THEN /\ pc' = "raised"
                                       /\ UNCHANGED <<log, idx>>
                                  ELSE /\ log' = Append(log,
                                              LogRecord("ERROR",
                                                  CASE clause = "FileNotFoundError" -> "not_found_move"
                                                    [] clause = "OSError" -> "os_error"
                                                    [] OTHER -> "move_failed",
                                                  file_path))
                                       /\ idx' = idx + 1
                                       /\ pc' = "loop"
           ELSE /\ trace' = called
                /\ log' = Append(log, LogRecord("INFO", "uncategorized", file_path))
                /\ idx' = idx + 1
                /\ pc' = "loop"
                /\ UNCHANGED <<fs, subdirs>>
    /\ text_content' = <<>>
    /\ UNCHANGED <<catVars, appVars, source_is_dir, target_is_dir, target_in_source, files_to_process>>

\* line 104: the loop is over and process_files returns
Finish ==
    /\ pc = "loop"
    /\ idx > Len(files_to_process)
    /\ log' = Append(log, LogRecord("INFO", "completed", NoPath))
    /\ pc' = "done"
    /\ UNCHANGED <<catVars, appVars, fs, source_is_dir, target_is_dir, target_in_source, subdirs,
                   files_to_process, idx, text_content, trace>>

\* the environment: the file the loop is at is deleted by someone else before
\* the program has moved it ("File may have been moved or deleted externally")
FileVanishes ==
    /\ pc \in {"loop", "relocate"}
    /\ idx <= Len(files_to_process)
    /\ isfile(fs, files_to_process[idx])
    /\ LET f == FileAt(fs, files_to_process[idx])
       IN  /\ f.dir = f.orig
           /\ fs' = fs \ {f}
    /\ UNCHANGED <<catVars, appVars, source_is_dir, target_is_dir, target_in_source, subdirs, pc,
                   files_to_process, idx, text_content, trace, log>>

Next ==
    \/ CheckDirectories
    \/ ScanSource
    \/ ExtractStep
    \/ RelocateStep
    \/ Finish
    \/ FileVanishes

Spec == Init /\ [][Next]_vars

\* ------------------------------------------------------------------------
\* app.py: the command-line program around process_files
\* ------------------------------------------------------------------------

Printed(stream, msg) == [stream |-> stream, msg |-> msg]

\* the state app.py is started in; when both arguments name the same directory
\* the files are those of that one directory
AppInit ==
    /\ StartOfRun
    /\ same_dirs \in BOOLEAN
    /\ same_dirs => /\ source_is_dir = target_is_dir
                    /\ ~target_in_source
                    /\ \A f \in fs : f.dir[1] # "target"
    /\ console = <<>>
    /\ exit_code = <<>>
    /\ pc = "app"

\* lines 42-63: the validation of the two arguments
AppValidate ==
    /\ pc = "app"
    /\ LET invoked == Append(log, LogRecord("INFO", "invoked", NoPath))
       IN  IF ~source_is_dir
           THEN /\ console' = Append(console, Printed("stderr", "source_not_a_directory"))
                /\ log' = Append(invoked, LogRecord("CRITICAL", "source_not_a_directory", NoPath))
                /\ exit_code' = <<1>>
                /\ pc' = "exited"
           ELSE IF same_dirs
           THEN /\ console' = Append(console, Printed("stderr", "same_directories"))
                /\ log' = Append(invoked, LogRecord("CRITICAL", "same_directories", NoPath))
                /\ exit_code' = <<1>>
                /\ pc' = "exited"
           ELSE /\ console' = Append(console, Printed("stdout", "starting"))
                /\ log' = Append(invoked, LogRecord("INFO", "initiating", NoPath))
                /\ pc' = "start"
                /\ UNCHANGED exit_code
    /\ UNCHANGED <<catVars, fs, source_is_dir, target_is_dir, target_in_source, subdirs,
                   files_to_process, idx, text_content, trace, same_dirs>>

\* KeyboardInterrupt is no Exception: none of the except clauses of
\* process_files and of its callees catches it, so it leaves process_files from
\* wherever it is raised
Interrupt ==
    /\ pc \in {"start", "scan", "loop", "relocate"}
    /\ pc' = "interrupted"
    /\ UNCHANGED <<catVars, appVars, fs, source_is_dir, target_is_dir, target_in_source,
                   subdirs, files_to_process, idx, text_content, trace, log>>

\* the content of a file of which only the first part has been written
PartialCopyOf(body) ==
    [parseable |-> FALSE, text |-> SubSeq(body.text, 1, Len(body.text) \div 2)]

\* KeyboardInterrupt inside lines 90-93: after create_target_subdir has made
\* the folder, or inside shutil.move, which renames the file in one step on
\* one file system and otherwise copies it to the destination and then
\* removes the source
InterruptInRelocate ==
    /\ pc = "relocate"
    /\ \E category \in {categorize_text(text_content, PREDEFINED_CATEGORIES)} :
         /\ category # None
         /\ LET file_path == files_to_process[idx]
                made == create_target_subdir(subdirs, category, FALSE)
                dst  == move_destination(file_path, made.path)
                called == trace \o << Call("categorize_text", file_path, category),
                                      Call("create_target_subdir", file_path, category) >>
            IN  /\ subdirs' = made.dirs
                /\ trace' = called
                /\ \E point \in {"after_mkdir", "during_copy", "after_copy"} :
                     IF point = "after_mkdir" \/ ~isfile(fs, file_path) \/ dst = file_path
                     THEN UNCHANGED fs
                     ELSE LET f == FileAt(fs, file_path)
                              copy == [f EXCEPT !.dir = dst.dir, !.name = dst.name,
                                                !.body = IF point = "during_copy"
                                                         THEN PartialCopyOf(f.body)
                                                         ELSE f.body]
                          IN  fs' = {g \in fs : PathOf(g) # dst} \cup {copy}
    /\ pc' = "interrupted"
    /\ UNCHANGED <<catVars, appVars, source_is_dir, target_is_dir, target_in_source,
                   files_to_process, idx, text_content, log>>

\* lines 65-85: what follows the call of process_files
AppExit ==
    /\ exit_code = <<>>
    /\ console # <<>>
    /\ pc \in {"done", "interrupted", "raised"}
    /\ IF pc = "done"
       THEN /\ console' = Append(console, Printed("stdout", "completed_successfully"))
            /\ log' = Append(log, LogRecord("INFO", "completed_successfully", NoPath))
            /\ exit_code' = <<0>>
       ELSE IF pc = "interrupted"
       THEN /\ console' = Append(console, Printed("stdout", "interrupted"))
            /\ log' = Append(log, LogRecord("WARNING", "interrupted", NoPath))
            /\ exit_code' = <<130>>
       ELSE /\ console' = Append(console, Printed("stderr", "unexpected_error"))
            /\ log' = Append(log, LogRecord("CRITICAL", "unexpected_error", NoPath))
            /\ exit_code' = <<1>>
    /\ pc' = "exited"
    /\ UNCHANGED <<catVars, fs, source_is_dir, target_is_dir, target_in_source, subdirs,
                   files_to_process, idx, text_content, trace, same_dirs>>

AppNext ==
    \/ AppValidate
    \/ CheckDirectories
    \/ ScanSource
    \/ ExtractStep
    \/ RelocateStep
    \/ Finish
    \/ FileVanishes
    \/ Interrupt
    \/ InterruptInRelocate
    \/ AppExit

SpecApp == AppInit /\ [][AppNext]_vars

\* ------------------------------------------------------------------------
\* The categorizer alone: inputs drawn from bounded sets, one call
\* ------------------------------------------------------------------------

SelfTestTexts == {sample_texts[i][1] : i \in 1..Len(sample_texts)}

CategorizerTexts ==
    SelfTestTexts \cup
    {text_custom, text_real_report, text_dissertation, text_upper, text_spaces, text_newlines}

\* the ten predefined names and the two unknown names of the self-test
CategoryNames ==
    {PREDEFINED_CATEGORIES[i] : i \in 1..Len(PREDEFINED_CATEGORIES)}
    \cup {"Custom Category A", "Random Category"}

CategoryLists ==
    {PREDEFINED_CATEGORIES}
    \cup UNION {[1..n -> CategoryNames] : n \in 0..MaxCats}

CatInit ==
    /\ RunIdle
    /\ AppIdle
    /\ text \in CategorizerTexts
    /\ categories \in CategoryLists
    /\ predicted = "pending"

Categorize ==
    /\ predicted = "pending"
    /\ predicted' = categorize_text(text, categories)
    /\ UNCHANGED <<text, categories, runVars, appVars>>

CatNext == Categorize

SpecCat == CatInit /\ [][CatNext]_vars

\* ------------------------------------------------------------------------
\* Claims about categorize_text (checked under SpecCat)
\* ------------------------------------------------------------------------

IsBlank(s) == \A i \in 1..Len(s) : s[i] \in Whitespace

\* pattern p occurs as a contiguous run of s
occurs_in(p, s) ==
    \E i \in 0..(Len(s) - Len(p)) : \A k \in 1..Len(p) : s[i + k] = p[k]

\* name c has a keyword rule one of whose patterns occurs in the lowercased text lt
Qualifies(c, lt) ==
    /\ c \in DOMAIN category_keywords
    /\ \E k \in 1..Len(category_keywords[c]) : occurs_in(category_keywords[c][k], lt)

QualifyingPositions ==
    LET lt == lower(text)
    IN  {i \in 1..Len(categories) : Qualifies(categories[i], lt)}

TablePosition(c) == CHOOSE i \in 1..Len(PREDEFINED_CATEGORIES) : PREDEFINED_CATEGORIES[i] = c

C2_BlankTextIsNone ==
    (predicted # "pending" /\ IsBlank(text)) => predicted = None

\* a whitespace-only, non-empty text categorized against the ten predefined names
C2_Witness ==
    /\ text # <<>>
    /\ IsBlank(text)
    /\ categories = PREDEFINED_CATEGORIES
    /\ predicted = None

\* C3: the result is None or a listed name that has a keyword rule, and a listed
\* name without a rule does not stop the scan: whenever some listed name
\* qualifies for a non-blank text, a category is returned
C3_ResultIsListedAndRuled ==
    predicted # "pending" =>
        /\ \/ predicted = None
           \/ /\ \E i \in 1..Len(categories) : categories[i] = predicted
              /\ predicted \in DOMAIN category_keywords
        /\ (~IsBlank(text) /\ QualifyingPositions # {}) => predicted # None

\* the self-test's custom list: an unknown name first, then the matching one
C3_Witness ==
    /\ text = text_custom
    /\ categories = custom_categories
    /\ predicted = "Theses & Dissertations"

\* C4: every row of the self-test table is predicted as the table expects
C4_SelfTestTableHolds ==
    (predicted # "pending" /\ categories = PREDEFINED_CATEGORIES) =>
        \A i \in 1..Len(sample_texts) :
            text = sample_texts[i][1] => predicted = sample_texts[i][2]

\* ------------------------------------------------------------------------
\* Claims about process_files (checked under Spec)
\* ------------------------------------------------------------------------

Last(seq) == seq[Len(seq)]

IsProcessingRecord(r) == r.msg = "processing"

\* the files the loop has started on, in the order it started on them
Attempted == SelectSeq(log, IsProcessingRecord)

\* position of a path in the list of discovered files
Position(path) == CHOOSE i \in 1..Len(files_to_process) : files_to_process[i] = path

\* the calls of move_file_to_directory that returned without raising
MovedCalls ==
    {k \in 1..Len(trace) :
        /\ trace[k].op = "move_file_to_directory"
        /\ trace[k].result \notin {"FileNotFoundError", "OSError"}}

\* where such a call puts the file: targetRoot/<category>/<original filename>
DestinationOf(call) == [dir |-> TargetSubdir(call.result), name |-> call.path.name]

\* the records that end the handling of a file that never got a category
NoCategoryOutcomes ==
    {"unsupported_type", "no_text", "extraction_failed", "not_found_extraction",
     "unexpected_extraction", "uncategorized"}

\* the records that end the handling of a file that was not moved
SkipOutcomes ==
    NoCategoryOutcomes \cup {"os_error", "not_found_move", "move_failed"}

TargetFiles(fsys) == {f \in fsys : f.dir[1] = "target"}

\* the extension of the name, compared case-insensitively, is an excluded one
ExcludedLower == {lower(EXCLUDED_FILE_EXTENSIONS[i]) : i \in 1..Len(EXCLUDED_FILE_EXTENSIONS)}

IsExcludedName(name) == lower(splitext_ext(name)) \in ExcludedLower

\* the extension of the name is '.doc' in any letter case
IsLegacyName(name) == lower(splitext_ext(name)) = <<".", "d", "o", "c">>

\* C5: no exception leaves process_files; the files started on are, in order, the
\* first files of the discovered list, each listed once; the calls made for an
\* earlier file all come before those made for a later one; and when
\* process_files has returned, every discovered file has been started on
C5_EveryFileOnceInOrder ==
    /\ pc # "raised"
    /\ \A i, j \in 1..Len(files_to_process) :
          i # j => files_to_process[i] # files_to_process[j]
    /\ Len(Attempted) <= Len(files_to_process)
    /\ \A i \in 1..Len(Attempted) : Attempted[i].path = files_to_process[i]
    /\ \A i, j \in 1..Len(trace) :
          i < j => Position(trace[i].path) <= Position(trace[j].path)
    /\ pc = "done" => Len(Attempted) = Len(files_to_process)

\* a run of two files that returned: the first failed, the second was moved
C5_Witness ==
    /\ pc = "done"
    /\ Len(files_to_process) = 2
    /\ \E i \in 1..Len(log) :
          log[i].level = "ERROR" /\ log[i].path = files_to_process[1]
    /\ Last(trace).path = files_to_process[2]
    /\ Len(trace) \in MovedCalls

\* C6: after the run, every discovered file whose move succeeded is itself at
\* targetRoot/<category>/<original filename>, and no file is at the path where
\* it was discovered
C6_MovedFileAtDestination ==
    pc = "done" =>
        \A k \in MovedCalls :
            /\ isfile(fs, DestinationOf(trace[k]))
            /\ FileAt(fs, DestinationOf(trace[k])).orig = trace[k].path.dir
            /\ ~isfile(fs, trace[k].path)

\* C7: no discovered file has an excluded extension, no call is made for a file
\* with an excluded extension, and a file with an excluded extension stays where
\* it was when the run started
C7_ExcludedNeverHandled ==
    /\ [](/\ \A i \in 1..Len(files_to_process) : ~IsExcludedName(files_to_process[i].name)
          /\ \A k \in 1..Len(trace) : ~IsExcludedName(trace[k].path.name)
          /\ \A f \in fs : IsExcludedName(f.name) => f.dir = f.orig)
    /\ [][\A f \in fs : IsExcludedName(f.name) => f \in fs']_vars

\* an archive with an upper-case extension is still in the source root after a
\* run that moved another file
C7_Witness ==
    /\ pc = "done"
    /\ \E f \in fs : f.name = name_archive /\ f.dir = SourceRoot
    /\ MovedCalls # {}

\* C8: a step that ends the handling of a file otherwise than by a successful
\* move leaves the file at its path as it was, and it stays there as it was for
\* the rest of the run; if the file got no category, the
\* target root, its category folders and the files in them are as they were;
\* the program changes the files only by a successful move, and each move call
\* comes right after the extraction of a non-blank text, the categorization
\* that returned a category and the creation of that category's folder, for
\* the same file
C8_SkippedFileLeftInPlace ==
    /\ [](\A k \in 1..Len(trace) :
            trace[k].op = "move_file_to_directory" =>
                /\ k >= 4
                /\ trace[k - 3] = Call("extract_text", trace[k].path, "text")
                /\ trace[k - 2].op = "categorize_text"
                /\ trace[k - 2].path = trace[k].path
                /\ trace[k - 2].result # None
                /\ trace[k - 1] = Call("create_target_subdir", trace[k].path, trace[k - 2].result)
                /\ k \in MovedCalls => trace[k].result = trace[k - 2].result)
    /\ [][log' # log /\ Last(log').path # NoPath =>
            LET file_path == Last(log').path
                outcome == Last(log').msg
            IN  /\ (outcome # "moved" /\ isfile(fs, file_path)) =>
                      /\ isfile(fs', file_path)
                      /\ FileAt(fs', file_path) = FileAt(fs, file_path)
                /\ outcome \in NoCategoryOutcomes =>
                      /\ TargetFiles(fs') = TargetFiles(fs)
                      /\ subdirs' = subdirs
                      /\ target_is_dir' = target_is_dir
                /\ fs' # fs =>
                      /\ outcome = "moved"
                      /\ Len(trace') \in MovedCalls'
                      /\ Last(trace').path = file_path]_vars
    /\ [][\A i \in 1..Len(log) :
            (/\ log[i].msg \in SkipOutcomes
             /\ isfile(fs, log[i].path)
             /\ FileAt(fs, log[i].path).orig = log[i].path.dir) =>
                /\ isfile(fs', log[i].path)
                /\ FileAt(fs', log[i].path) = FileAt(fs, log[i].path)]_vars

\* C9: the files are scanned and handled only with both roots in place; without
\* a source root process_files returns at once and changes nothing, the target
\* root included; a missing target root is created and the scan follows; if it
\* cannot be created process_files returns at once and no file is handled
C9_PreconditionsFirst ==
    /\ []((idx > 0 \/ files_to_process # <<>> \/ trace # <<>>) =>
            (source_is_dir /\ target_is_dir))
    /\ []((pc = "done" /\ ~(source_is_dir /\ target_is_dir)) =>
            /\ files_to_process = <<>>
            /\ trace = <<>>
            /\ Attempted = <<>>
            /\ \A f \in fs : f.dir = f.orig)
    /\ [][pc = "start" =>
            IF ~source_is_dir
            THEN /\ pc' = "done"
                 /\ UNCHANGED <<fs, target_is_dir, subdirs, files_to_process, idx, trace>>
            ELSE IF ~target_is_dir
            THEN /\ UNCHANGED <<fs, subdirs, files_to_process, idx, trace>>
                 /\ \/ target_is_dir' /\ pc' = "scan"
                    \/ ~target_is_dir' /\ pc' = "done"
            ELSE /\ pc' = "scan"
                 /\ UNCHANGED <<fs, target_is_dir, subdirs, files_to_process, idx, trace>>]_vars
    /\ [][pc = "scan" => pc' = "loop" /\ idx' = 1]_vars

\* the target root could not be created: the files of the source are untouched
C9_Witness ==
    /\ pc = "done"
    /\ source_is_dir
    /\ ~target_is_dir
    /\ fs # {}
    /\ trace = <<>>
    /\ Last(log).msg = "target_create_failed"

\* C10: the only call made for a '.doc' file is extract_text, which returns None
\* while the file exists (it raises FileNotFoundError only once the file is
\* gone); a '.doc' file is where it was when the run started, and no step of
\* the program removes it
C10_LegacyDocLeftInPlace ==
    /\ [](/\ \A k \in 1..Len(trace) :
                IsLegacyName(trace[k].path.name) =>
                    /\ trace[k].op = "extract_text"
                    /\ trace[k].result \in {"none", "FileNotFoundError"}
                    /\ trace[k].result = "FileNotFoundError" => ~isfile(fs, trace[k].path)
          /\ \A f \in fs :
                IsLegacyName(f.name) =>
                    /\ f.dir = f.orig
                    /\ extract_text(fs, PathOf(f)) = ReturnNone)
    /\ [][\A f \in fs : (IsLegacyName(f.name) /\ log' # log) => f \in fs']_vars

\* a '.Doc' file was handed to extract_text, which returned None, and is in place
C10_Witness ==
    /\ pc = "done"
    /\ \E k \in 1..Len(trace) :
          /\ IsLegacyName(trace[k].path.name)
          /\ trace[k].result = "none"
          /\ isfile(fs, trace[k].path)
          /\ \E i \in 1..Len(log) : log[i] = LogRecord("WARNING", "no_text", trace[k].path)

\* the successful calls of create_target_subdir
MadeCalls ==
    {k \in 1..Len(trace) :
        trace[k].op = "create_target_subdir" /\ trace[k].result # "OSError"}

\* C12: with the category folders as they are at any point of a run (those of
\* earlier runs included), a call of create_target_subdir that the operating
\* system does not refuse raises nothing and returns the path of the folder,
\* and a second call gives the same path, raises nothing and leaves the same
\* folders; the call adds nothing when the folder is there already; and every
\* folder a call returned is in place
C12_CreateTargetSubdirIdempotent ==
    /\ \A i \in 1..Len(PREDEFINED_CATEGORIES) :
          LET subdir_name == PREDEFINED_CATEGORIES[i]
              first  == create_target_subdir(subdirs, subdir_name, FALSE)
              second == create_target_subdir(first.dirs, subdir_name, FALSE)
          IN  /\ first.exc = None
              /\ second.exc = None
              /\ first.path = TargetSubdir(subdir_name)
              /\ second.path = first.path
              /\ first.dirs = subdirs \cup {subdir_name}
              /\ second.dirs = first.dirs
              /\ subdir_name \in subdirs => first.dirs = subdirs
    /\ \A k \in MadeCalls : trace[k].result \in subdirs

\* the folder of a category was asked for twice in one run, the second time
\* when it was there, and both calls succeeded
C12_Witness ==
    /\ pc = "done"
    /\ \E j, k \in MadeCalls :
          /\ j < k
          /\ trace[j].result = trace[k].result
          /\ trace[k].result \in subdirs

\* C13: the document whose extracted text is that of real_report.docx is
\* categorized as 'Reports', and when its move succeeds it is moved to the
\* folder 'Reports'
C13_RealReportFiledUnderReports ==
    /\ (pc = "relocate" /\ text_content = text_real_report) =>
          categorize_text(text_content, PREDEFINED_CATEGORIES) = "Reports"
    /\ \A k \in MovedCalls :
          (/\ trace[k].path.name = name_real_report
           /\ isfile(fs, DestinationOf(trace[k]))
           /\ FileAt(fs, DestinationOf(trace[k])).body = Parseable(text_real_report)) =>
              trace[k].result = "Reports"

\* the paths extract_text is tried on: every name in every directory, with or
\* without a file there
ProbePaths == {[dir |-> d, name |-> doc.name] : d \in StartDirs, doc \in Documents}

\* the extension of the name is one of the four supported groups, '.doc' apart
IsParsedName(name) ==
    lower(splitext_ext(name)) \in
        { <<".", "d", "o", "c", "x">>, <<".", "p", "d", "f">>,
          <<".", "x", "l", "s">>, <<".", "x", "l", "s", "x">>,
          <<".", "p", "p", "t">>, <<".", "p", "p", "t", "x">> }

\* C15: on the files as they are at any point of a run, extract_text raises
\* FileNotFoundError exactly for the paths that name no file, whatever the
\* extension; for a file it returns None exactly when the extension is '.doc' or
\* outside the supported groups; otherwise it returns the text of the file, or
\* raises TextExtractionError when the parser fails; and process_files never
\* sees another exception from it
C15_ExtractTextFourOutcomes ==
    /\ \A path \in ProbePaths :
          LET r == extract_text(fs, path)
          IN  IF ~isfile(fs, path) THEN r = Raise("FileNotFoundError")
              ELSE IF ~IsParsedName(path.name) THEN r = ReturnNone
              ELSE IF FileAt(fs, path).body.parseable
              THEN r = ReturnText(FileAt(fs, path).body.text)
              ELSE r = Raise("TextExtractionError")
    /\ \A k \in 1..Len(trace) :
          trace[k].op = "extract_text" =>
              trace[k].result \in {"FileNotFoundError", "none", "text", "TextExtractionError"}

\* in one run extract_text returned a text for one file and raised
\* TextExtractionError for another
C15_Witness ==
    /\ pc = "done"
    /\ \E j, k \in 1..Len(trace) :
          /\ trace[j] = Call("extract_text", trace[j].path, "text")
          /\ trace[k] = Call("extract_text", trace[k].path, "TextExtractionError")

\* C16: the record that ends the handling of a file whose extension is outside
\* the supported groups or is '.doc', when no text was asked of it or
\* extract_text returned None, has level INFO, and the file stays where it was
C16_UnsupportedFormatLoggedAtInfo ==
    /\ \A i \in 1..Len(log) :
          (/\ log[i].msg \in {"unsupported_type", "no_text"}
           /\ ~IsParsedName(log[i].path.name)) =>
              log[i].level = "INFO"
    /\ \A f \in fs : ~IsParsedName(f.name) => f.dir = f.orig

\* the file is one that get_source_files listed, at the path it was listed at or
\* moved since
IsDiscovered(f) ==
    \E i \in 1..Len(files_to_process) :
        files_to_process[i] = [dir |-> f.orig, name |-> f.name]

\* C17: no step of process_files takes a discovered file away or changes its
\* content: after the step the file is, with its content, at its original path
\* or at targetRoot/<category>/<its name>; and no file is at two places; so
\* when process_files has returned every discovered file that nobody else
\* removed still exists
C17_NoDiscoveredFileLost ==
    /\ [](\A f, g \in fs : (f.orig = g.orig /\ f.name = g.name) => f = g)
    /\ [][log' # log =>
            \A f \in fs :
                IsDiscovered(f) =>
                    \E g \in fs' :
                        /\ g.orig = f.orig
                        /\ g.name = f.name
                        /\ g.body = f.body
                        /\ \/ g.dir = g.orig
                           \/ \E i \in 1..Len(PREDEFINED_CATEGORIES) :
                                 g.dir = TargetSubdir(PREDEFINED_CATEGORIES[i])]_vars

\* ------------------------------------------------------------------------
\* Claims about app.py (checked under SpecApp)
\* ------------------------------------------------------------------------

\* the records that end the handling of a file
IsOutcomeRecord(r) == r.msg \in SkipOutcomes \cup {"moved"}

\* the log records of the conditions that keep the batch from running
FatalRecords ==
    {"source_not_a_directory", "same_directories", "source_missing",
     "target_create_failed", "source_missing_scan", "unexpected_error"}

HasLogged(msgs) == \E i \in 1..Len(log) : log[i].msg \in msgs

\* C11: when a user interrupt ends the batch, every file the loop started on has
\* reached its outcome (the file being processed was completed first); every
\* file has the content of a file of the start and is at one place only (fully
\* moved or not touched); nothing more is done to the files after the
\* interrupt; and the process exits with code 130
C11_InterruptStopsAfterCurrentFile ==
    /\ [](pc = "interrupted" =>
            /\ Len(Attempted) = Len(SelectSeq(log, IsOutcomeRecord))
            /\ \A f \in fs : f.body \in {doc.body : doc \in Documents}
            /\ \A f, g \in fs : (f.orig = g.orig /\ f.name = g.name) => f = g)
    /\ [][pc = "interrupted" =>
            /\ UNCHANGED <<fs, subdirs, trace, idx>>
            /\ exit_code' = <<130>>]_vars

\* C14: a run that met a fatal condition has exit code 1 and a diagnostic on
\* the error stream; exit code 0 and the 'completed successfully' message occur
\* only when the batch was run, that is, the source tree was scanned
C14_FatalConditionsExitWithOne ==
    pc = "exited" =>
        /\ HasLogged(FatalRecords) =>
              /\ exit_code = <<1>>
              /\ \E i \in 1..Len(console) : console[i].stream = "stderr"
        /\ (\/ exit_code = <<0>>
            \/ \E i \in 1..Len(console) : console[i].msg = "completed_successfully") =>
              HasLogged({"found_files"})

====
